---- MODULE Spec2Model ----
(***************************************************************************)
(* Kontent.ai duplicate URL slug finder.                                   *)
(*                                                                         *)
(* The model follows                                                       *)
(*   src/src/services/search.ts   findDuplicateSlugs, searchSpecificSlug   *)
(*   src/src/config/index.ts      lines 251-461: the Delivery SDK service  *)
(*                                (searchWithDeliveryApi, ...)             *)
(*   src/unnamed/part_004         the configuration module main.ts imports *)
(*   src/src/main.ts              the UI handlers                          *)
(*                                                                         *)
(* Strings that the code splits, trims or joins are sequences of tokens:   *)
(* "," and " " are tokens of their own, every other token is a word.       *)
(* JavaScript runs a handler without interruption up to its next await of  *)
(* real I/O, so an action is the code from one suspension to the next.     *)
(***************************************************************************)
EXTENDS Naturals, Sequences, FiniteSets

VARIABLES
    env,                         \* import.meta.env: the VITE_* variables
    appConfig,                   \* the global configuration object
    userHasConfiguredLanguages,  \* part_004: the module-level flag
    booted,                      \* initializeApp has installed the listeners
    screen,                      \* what resultDiv shows: which buttons exist
    pendingContext,              \* suspended initializeConfig calls
    content,                     \* the content repository, per language
    runs,                        \* the invocations of findDuplicateSlugs / searchSpecificSlug
    inputs,                      \* what the user types into the input fields
    budget                       \* what the environment may still do (model bounds)

vars == <<env, appConfig, userHasConfiguredLanguages, booted, screen,
          pendingContext, content, runs, inputs, budget>>

-----------------------------------------------------------------------------
(* Bounds of the model *)

\* items in the repository, summed over the languages
MaxItems == 3
\* fetches the environment may fail in one behaviour
MaxFaults == 2
\* invocations started by UI events in one behaviour
MaxRuns == 1
\* handleConfigClick calls suspended at getCustomAppContext at one time
MaxPending == 1

-----------------------------------------------------------------------------
(* JavaScript values *)

\* an absent element or property (item.elements.url_slug?.value is undefined)
Undefined == "<undefined>"

\* a string (or undefined) is truthy in `a || b`, `if (a)`, `Boolean(a)`
Truthy(v) == v \notin {Undefined, ""}

\* a || b
Or(a, b) == IF Truthy(a) THEN a ELSE b

\* the property names every object literal {} inherits from Object.prototype
\* and that are legal codenames (lowercase letters, digits, underscore)
ObjectPrototypeKeys == {"constructor", "__proto__"}

\* array.map(f)
MapSeq(s, f(_)) == [k \in 1..Len(s) |-> f(s[k])]

\* the elements of a sequence
Range(s) == {s[k] : k \in 1..Len(s)}

-----------------------------------------------------------------------------
(* Token strings: split, trim, join *)

RECURSIVE SplitComma(_)
\* s.split(","): the segments between the "," tokens; "".split(",") is [""]
SplitComma(s) ==
    IF \A k \in 1..Len(s) : s[k] # ","
    THEN <<s>>
    ELSE LET p == CHOOSE k \in 1..Len(s) :
                      s[k] = "," /\ \A j \in 1..(k - 1) : s[j] # ","
         IN <<SubSeq(s, 1, p - 1)>> \o SplitComma(SubSeq(s, p + 1, Len(s)))

RECURSIVE Trim(_)
\* s.trim(): the blanks at both ends removed
Trim(s) ==
    IF s = <<>> THEN s
    ELSE IF Head(s) = " " THEN Trim(Tail(s))
    ELSE IF s[Len(s)] = " " THEN Trim(SubSeq(s, 1, Len(s) - 1))
    ELSE s

\* the string a trimmed segment is: the empty string, or its one word
Word(seg) == IF seg = <<>> THEN "" ELSE seg[1]

RECURSIVE JoinCommaSpace(_)
\* parts.join(", ")
JoinCommaSpace(parts) ==
    IF parts = <<>> THEN <<>>
    ELSE IF Len(parts) = 1 THEN <<parts[1]>>
    ELSE <<parts[1], ",", " ">> \o JoinCommaSpace(Tail(parts))

-----------------------------------------------------------------------------
(* The content repository and the items it returns *)

\* IContentItem as the SDK returns it: system.name, system.codename,
\* system.language, elements.url_slug?.value, elements.slug?.value
Item(n, c, l, u, s) ==
    [name |-> n, codename |-> c, language |-> l, url_slug |-> u, slug |-> s]

\* what a failed fetch throws, and what pushing to a non-array throws
FetchError == "fetch failed"
TypeError == "acc[item.codename].push is not a function"

\* const slug = item.elements.url_slug?.value || item.elements.slug?.value
SlugOf(item) == Or(item.url_slug, item.slug)

\* the response of client.items().type('page').languageParameter(lang)
\*   .elementsParameter(['url_slug','slug']).toAllPromise()
FetchAll(c, lang) == IF lang \in DOMAIN c THEN c[lang] ELSE <<>>

\* response.data.items.filter(item =>
\*     item.elements.url_slug?.value || item.elements.slug?.value)
itemsWithSlugs(items) == SelectSeq(items, LAMBDA item : Truthy(SlugOf(item)))

-----------------------------------------------------------------------------
(* search.ts: buildSlugMap, findTrueDuplicates, groupItemsByCodename *)

\* mutant: an empty url_slug value still counts as the field that matched
SlugRecordOfPresentUrlSlug(item) ==
    [name      |-> Or(item.name, "Unknown"),
     codename  |-> Or(item.codename, "unknown"),
     language  |-> Or(item.language, "unknown"),
     slugField |-> IF item.url_slug # Undefined THEN "url_slug" ELSE "slug"]

\* the object pushed for an item
SlugRecord(item) ==
    [name      |-> Or(item.name, "Unknown"),
     codename  |-> Or(item.codename, "unknown"),
     language  |-> Or(item.language, "unknown"),
     slugField |-> IF Truthy(item.url_slug) THEN "url_slug" ELSE "slug"]

\* slugMap.has(slug): a Map is a sequence of entries in insertion order
MapHas(m, key) == \E k \in 1..Len(m) : m[k].slug = key

\* mutant: slugMap.set(slug, [rec]) on every item, losing the earlier records
MapPushOverwrite(m, key, rec) ==
    IF MapHas(m, key)
    THEN [k \in 1..Len(m) |->
            IF m[k].slug = key THEN [m[k] EXCEPT !.items = <<rec>>] ELSE m[k]]
    ELSE Append(m, [slug |-> key, items |-> <<rec>>])

\* if (!slugMap.has(slug)) slugMap.set(slug, []); slugMap.get(slug)?.push(rec)
MapPush(m, key, rec) ==
    IF MapHas(m, key)
    THEN [k \in 1..Len(m) |->
            IF m[k].slug = key
            THEN [m[k] EXCEPT !.items = Append(@, rec)]
            ELSE m[k]]
    ELSE Append(m, [slug |-> key, items |-> <<rec>>])

RECURSIVE SlugMapFrom(_, _)
\* the loop of buildSlugMap over the items left, slugMap being built
SlugMapFrom(items, slugMap) ==
    IF items = <<>> THEN slugMap
    ELSE LET item == Head(items)
             slug == SlugOf(item)
         IN IF ~Truthy(slug)
            THEN SlugMapFrom(Tail(items), slugMap)
            ELSE SlugMapFrom(Tail(items), MapPush(slugMap, slug, SlugRecord(item)))

buildSlugMap(items) == SlugMapFrom(items, <<>>)

\* acc[item.codename] is an own property of the accumulator
OwnKey(acc, codename) == \E k \in 1..Len(acc) : acc[k].codename = codename

RECURSIVE GroupReduce(_, _)
\* items.reduce((acc, item) => ..., {}): acc is a plain object, so a codename
\* that names an inherited property finds a truthy acc[codename] that is no
\* array, and push throws
GroupReduce(items, acc) ==
    IF items = <<>> THEN [threw |-> FALSE, grouped |-> acc]
    ELSE LET item == Head(items)
         IN IF OwnKey(acc, item.codename)
            THEN GroupReduce(Tail(items),
                   [k \in 1..Len(acc) |->
                      IF acc[k].codename = item.codename
                      THEN [acc[k] EXCEPT !.items = Append(@, item)]
                      ELSE acc[k]])
            ELSE IF item.codename \in ObjectPrototypeKeys
            THEN [threw |-> TRUE, grouped |-> <<>>]
            ELSE GroupReduce(Tail(items),
                   Append(acc, [codename |-> item.codename, items |-> <<item>>]))

\* mutant: name and slugField are those of the last record of the group
EntitySummaryOfLast(entry) ==
    [name      |-> entry.items[Len(entry.items)].name,
     codename  |-> entry.codename,
     language  |-> JoinCommaSpace(MapSeq(entry.items, LAMBDA it : it.language)),
     slugField |-> entry.items[Len(entry.items)].slugField]

\* one EntitySummary of Object.entries(grouped).map(...)
EntitySummary(entry) ==
    [name      |-> entry.items[1].name,
     codename  |-> entry.codename,
     language  |-> JoinCommaSpace(MapSeq(entry.items, LAMBDA it : it.language)),
     slugField |-> entry.items[1].slugField]

\* [threw, value]: the summaries, or the TypeError of the reduce
groupItemsByCodename(items) ==
    LET r == GroupReduce(items, <<>>)
    IN [threw |-> r.threw, value |-> MapSeq(r.grouped, EntitySummary)]

\* the filter of findTrueDuplicates
uniqueCodenames(items) == {items[k].codename : k \in 1..Len(items)}

isTrueDuplicate(entry) == Cardinality(uniqueCodenames(entry.items)) > 1

\* [threw, value]: Array.from(slugMap.entries()).filter(...).map(...)
findTrueDuplicates(slugMap) ==
    LET kept == SelectSeq(slugMap, isTrueDuplicate)
        groups == MapSeq(kept, LAMBDA e : groupItemsByCodename(e.items))
    IN IF \E k \in 1..Len(groups) : groups[k].threw
       THEN [threw |-> TRUE, value |-> <<>>]
       ELSE [threw |-> FALSE,
             value |-> [k \in 1..Len(kept) |->
                          [slug |-> kept[k].slug, items |-> groups[k].value]]]

\* the DuplicateResult of the catch block
DuplicateErrorResult(message) ==
    [duplicates |-> <<>>, error |-> <<"Unexpected error: ", message>>]

\* mutant: a run that fetched nothing reports an error
DuplicateResultOfEmptyIsError(allItems) ==
    IF allItems = <<>>
    THEN DuplicateErrorResult("No items found")
    ELSE [duplicates  |-> findTrueDuplicates(buildSlugMap(allItems)).value,
          totalItems  |-> Len(allItems),
          uniqueSlugs |-> Len(buildSlugMap(allItems))]

\* the DuplicateResult of findDuplicateSlugs once every fetch has succeeded
DuplicateResultOf(allItems) ==
    LET slugMap == buildSlugMap(allItems)
        duplicates == findTrueDuplicates(slugMap)
    IN IF duplicates.threw
       THEN [duplicates |-> <<>>, error |-> <<"Unexpected error: ", TypeError>>]
       ELSE [duplicates  |-> duplicates.value,
             totalItems  |-> Len(allItems),
             uniqueSlugs |-> Len(slugMap)]


\* the DuplicateResult of an invalid configuration
MissingConfiguration == "Missing Kontent.ai Project ID configuration."

DuplicateConfigResult == [duplicates |-> <<>>, error |-> <<MissingConfiguration>>]

-----------------------------------------------------------------------------
(* part_004: the configuration module *)

\* export const appConfig = { environmentId: "", ..., languages: [], defaultLanguage: "en" }
AppConfigInitial ==
    [environmentId    |-> "",
     managementApiKey |-> "",
     languages        |-> <<>>,
     defaultLanguage  |-> "en"]

\* getEnvVar(key): import.meta.env?.[key] || ""; a value is a token string
getEnvVar(e, key) == e[key]

\* mutant: every configuration passes for valid
isConfigValidAlways(cfg) == TRUE

\* isConfigValid(): Boolean(appConfig.environmentId)
isConfigValid(cfg) == Truthy(cfg.environmentId)

\* mutant: the default language is used as it is, empty or not
getConfiguredLanguagesNoEn(cfg) ==
    IF Len(cfg.languages) > 0
    THEN cfg.languages
    ELSE <<cfg.defaultLanguage>>

\* getConfiguredLanguages()
getConfiguredLanguages(cfg) ==
    IF Len(cfg.languages) > 0
    THEN cfg.languages
    ELSE <<Or(cfg.defaultLanguage, "en")>>

\* envLanguages.split(",").map(lang => lang.trim())
EnvLanguages(raw) == MapSeq(SplitComma(raw), LAMBDA seg : Word(Trim(seg)))

\* initializeConfig up to its await of getCustomAppContext()
InitializeConfigSync(cfg, flag, e) ==
    LET c1 == [cfg EXCEPT !.environmentId =
                   Word(getEnvVar(e, "VITE_KONTENT_ENVIRONMENT_ID"))]
        envLanguages == getEnvVar(e, "VITE_KONTENT_LANGUAGES")
        c2 == IF ~flag /\ envLanguages # <<>>
              THEN [c1 EXCEPT !.languages = EnvLanguages(envLanguages)]
              ELSE c1
        envDefaultLanguage == getEnvVar(e, "VITE_KONTENT_DEFAULT_LANGUAGE")
    IN IF ~flag /\ envDefaultLanguage # <<>>
       THEN [c2 EXCEPT !.defaultLanguage = Word(Trim(envDefaultLanguage))]
       ELSE c2

\* what getCustomAppContext() can do: throw, or answer with isError and
\* context?.environmentId
ContextOutcomes ==
    {[throws |-> TRUE,  isError |-> FALSE, environmentId |-> Undefined],
     [throws |-> FALSE, isError |-> TRUE,  environmentId |-> Undefined],
     [throws |-> FALSE, isError |-> FALSE, environmentId |-> Undefined],
     [throws |-> FALSE, isError |-> FALSE, environmentId |-> ""],
     [throws |-> FALSE, isError |-> FALSE, environmentId |-> "ctx-env"]}

\* mutant: the environment id of the answer is taken whenever nothing was
\* thrown, an absent one as the empty string
InitializeConfigResumeUnchecked(cfg, ctx) ==
    IF ~ctx.throws
    THEN [cfg EXCEPT !.environmentId = Or(ctx.environmentId, "")]
    ELSE cfg

\* initializeConfig after the await: the try block and its catch
InitializeConfigResume(cfg, ctx) ==
    IF ~ctx.throws /\ ~ctx.isError /\ Truthy(ctx.environmentId)
    THEN [cfg EXCEPT !.environmentId = ctx.environmentId]
    ELSE cfg

-----------------------------------------------------------------------------
(* Invocations *)

\* a run that has not returned yet
NoResult == [pending |-> TRUE]

\* one fetch an invocation issued: by which function, for which language,
\* filtered on which element ("all": no filter), and how it ended
Fetch(by, lang, field) ==
    [by |-> by, lang |-> lang, field |-> field, outcome |-> "pending"]

\* the last fetch of the log has returned
Settle(fetches, outcome) ==
    [fetches EXCEPT ![Len(fetches)].outcome = outcome]

\* an invocation before it has run a line; entryId records the environment
\* id of the configuration it was called with
NewRun(kind, targetSlug, cfg) ==
    [kind |-> kind, targetSlug |-> targetSlug, pc |-> "start",
     entryId |-> cfg.environmentId, valid |-> FALSE, client |-> Undefined, langs |-> <<>>, i |-> 0,
     allItems |-> <<>>, fetches |-> <<>>,
     deliveryApi |-> NoResult, deliveryApiAllItems |-> NoResult,
     result |-> NoResult]

\* findDuplicateSlugs() from its first line to the first fetch of
\* fetchAllPageItemsWithSlugs, or to its return
findDuplicateSlugsStart(cfg) ==
    LET run == NewRun("find", "", cfg)
        languagesToSearch == getConfiguredLanguages(cfg)
    IN IF ~isConfigValid(cfg)
       THEN [run EXCEPT !.pc = "done", !.result = DuplicateConfigResult]
       ELSE [run EXCEPT !.pc = "fetch", !.valid = TRUE,
                        !.client = cfg.environmentId,
                        !.langs = languagesToSearch, !.i = 1,
                        !.fetches = <<Fetch("find", languagesToSearch[1], "all")>>]

\* mutant: the loop ends after the first response
findDuplicateSlugsResumeFirstOnly(run, response) ==
    [run EXCEPT !.pc = "done",
                !.allItems = run.allItems \o itemsWithSlugs(response),
                !.fetches = Settle(run.fetches, "ok"),
                !.result = DuplicateResultOf(run.allItems \o itemsWithSlugs(response))]

\* fetchAllPageItemsWithSlugs resumed by a response: the rest of the loop,
\* then buildSlugMap, findTrueDuplicates and the return
findDuplicateSlugsResume(run, response) ==
    LET allItems == run.allItems \o itemsWithSlugs(response)
        settled == Settle(run.fetches, "ok")
    IN IF run.i < Len(run.langs)
       THEN [run EXCEPT !.i = @ + 1, !.allItems = allItems,
                        !.fetches = Append(settled,
                                       Fetch("find", run.langs[run.i + 1], "all"))]
       ELSE [run EXCEPT !.pc = "done", !.allItems = allItems,
                        !.fetches = settled,
                        !.result = DuplicateResultOf(allItems)]

\* mutant: the catch block returns what the earlier languages gave
findDuplicateSlugsCatchPartial(run) ==
    [run EXCEPT !.pc = "done", !.fetches = Settle(run.fetches, "failed"),
                !.result = [duplicates  |-> <<>>,
                            totalItems  |-> Len(run.allItems),
                            uniqueSlugs |-> Len(buildSlugMap(run.allItems)),
                            error |-> <<"Unexpected error: ", FetchError>>]]

\* fetchAllPageItemsWithSlugs resumed by a rejection: the catch block
findDuplicateSlugsCatch(run) ==
    [run EXCEPT !.pc = "done", !.fetches = Settle(run.fetches, "failed"),
                !.result = DuplicateErrorResult(FetchError)]

\* resultDiv after a handler has rendered a result or a progress text
ScreenOther(scr) == [scr EXCEPT !.result = "other"]

-----------------------------------------------------------------------------
(* main.ts: the handlers of a detection run *)

\* click on find-btn: handleFindDuplicatesClick up to its await
handleFindDuplicatesClick ==
    /\ booted
    /\ budget.runs > 0
    /\ runs' = Append(runs, findDuplicateSlugsStart(appConfig))
    /\ budget' = [budget EXCEPT !.runs = @ - 1]
    /\ screen' = [result |-> "other", search |-> FALSE]
    /\ UNCHANGED <<env, appConfig, userHasConfiguredLanguages, booted,
                   pendingContext, content, inputs>>

\* a per-language fetch of detection run r returns or fails
FindFetchReturns(r) ==
    /\ runs[r].kind = "find"
    /\ runs[r].pc = "fetch"
    /\ \E ok \in BOOLEAN :
         /\ ok \/ budget.faults > 0
         /\ LET run == runs[r]
                next == IF ok
                        THEN findDuplicateSlugsResume(run,
                                 FetchAll(content, run.langs[run.i]))
                        ELSE findDuplicateSlugsCatch(run)
            IN /\ runs' = [runs EXCEPT ![r] = next]
               /\ screen' = IF next.pc = "done" THEN ScreenOther(screen) ELSE screen
         /\ budget' = IF ok THEN budget ELSE [budget EXCEPT !.faults = @ - 1]
    /\ UNCHANGED <<env, appConfig, userHasConfiguredLanguages, booted,
                   pendingContext, content, inputs>>

-----------------------------------------------------------------------------
(* api.ts (src/src/config/index.ts, lines 251-461): the search strategies *)

\* api.ts: const LANGUAGE_CODES = ["de", "en", "zh"]
LANGUAGE_CODES == <<"de", "en", "zh">>

\* the languages of the repository
Languages == Range(LANGUAGE_CODES)

\* formatSDKItem(item, language): every fetched item is of type 'page'
formatSDKItem(item, language) ==
    [name      |-> Or(item.name, "Unknown"),
     codename  |-> Or(item.codename, "Unknown"),
     type      |-> "page",
     language  |-> language,
     slug      |-> Or(Or(item.url_slug, item.slug), "No slug"),
     slugField |-> IF Truthy(item.url_slug) THEN "url_slug" ELSE "slug"]

\* self.findIndex(i => i.codename === item.codename && i.language === item.language)
findIndex(self, item) ==
    CHOOSE k \in 1..Len(self) :
        /\ self[k].codename = item.codename /\ self[k].language = item.language
        /\ \A j \in 1..(k - 1) :
             ~(self[j].codename = item.codename /\ self[j].language = item.language)

\* api.ts removeDuplicateItems(items): items.filter((item, index, self) =>
\*     index === self.findIndex(...))
apiRemoveDuplicateItems(items) ==
    LET F[k \in 0..Len(items)] ==
            IF k = 0 THEN <<>>
            ELSE IF k = findIndex(items, items[k])
                 THEN Append(F[k - 1], items[k]) ELSE F[k - 1]
    IN F[Len(items)]

\* mutant: the last record of a key is kept instead of the first
removeDuplicateItemsKeepLast(items) ==
    LET keep == {k \in 1..Len(items) :
                    \A j \in (k + 1)..Len(items) :
                        ~(items[j].codename = items[k].codename
                          /\ items[j].language = items[k].language)}
        F[k \in 0..Len(items)] ==
            IF k = 0 THEN <<>>
            ELSE IF k \in keep THEN Append(F[k - 1], items[k]) ELSE F[k - 1]
    IN F[Len(items)]

\* search.ts removeDuplicateItems(items): items.filter((item, index, self) =>
\*     index === self.findIndex(...))
removeDuplicateItems(items) ==
    LET F[k \in 0..Len(items)] ==
            IF k = 0 THEN <<>>
            ELSE IF k = findIndex(items, items[k])
                 THEN Append(F[k - 1], items[k]) ELSE F[k - 1]
    IN F[Len(items)]

\* the response of client.items().type('page').equalsFilter('elements.<field>',
\*   targetSlug).languageParameter(lang).toAllPromise()
FetchEquals(c, lang, field, targetSlug) ==
    SelectSeq(FetchAll(c, lang), LAMBDA item : item[field] = targetSlug)

\* createErrorResult(message, method)
createErrorResult(message, method) ==
    [success |-> FALSE, items |-> <<>>, error |-> message, method |-> method]

\* the ApiResult searchWithDeliveryApi returns after its loop
DeliveryApiResult(allItems) ==
    [success |-> TRUE, items |-> apiRemoveDuplicateItems(allItems),
     method |-> "delivery-sdk",
     totalItems |-> Len(apiRemoveDuplicateItems(allItems))]

\* the ApiResult searchAllItemsDeliveryApi returns after its loop (the
\* similarSlugs list, a substring search shown for diagnosis, is left out)
AllItemsResult(allItems, targetSlug) ==
    LET exactMatches == SelectSeq(allItems, LAMBDA item : item.slug = targetSlug)
    IN [success |-> TRUE, items |-> exactMatches, method |-> "delivery-sdk-all",
        totalItems |-> Len(allItems), exactMatches |-> Len(exactMatches),
        allSlugsCount |-> Cardinality({allItems[k].slug : k \in 1..Len(allItems)})]

\* appConfig.managementApiKey ? await searchWithManagementApi(targetSlug) : null
ManagementResult(cfg) ==
    IF Truthy(cfg.managementApiKey)
    THEN [success |-> TRUE, items |-> <<>>, method |-> "management-api"]
    ELSE [items |-> <<>>]

\* searchSpecificSlug from `const allItems = [...]` to its return
SearchResult(run, deliveryApiAllItems, cfg) ==
    LET managementApi == ManagementResult(cfg)
        allItems == run.deliveryApi.items \o deliveryApiAllItems.items
                        \o managementApi.items
        uniqueItems == removeDuplicateItems(allItems)
    IN [run EXCEPT !.pc = "done",
                   !.deliveryApiAllItems = deliveryApiAllItems,
                   !.result = [success |-> TRUE, items |-> uniqueItems,
                               method |-> "combined-sdk",
                               deliveryApi |-> run.deliveryApi,
                               deliveryApiAllItems |-> deliveryApiAllItems,
                               managementApi |-> managementApi,
                               totalItems |-> Len(uniqueItems)]]

\* searchSpecificSlug(targetSlug) from its first line to the first fetch of
\* searchWithDeliveryApi, or to its return
searchSpecificSlugStart(cfg, targetSlug) ==
    LET run == NewRun("search", targetSlug, cfg)
    IN IF ~isConfigValid(cfg)
       THEN [run EXCEPT !.pc = "done",
                        !.result = createErrorResult(<<MissingConfiguration>>, "none")]
       ELSE [run EXCEPT !.pc = "delivery", !.valid = TRUE,
                        !.client = cfg.environmentId,
                        !.langs = LANGUAGE_CODES, !.i = 1,
                        !.fetches = <<Fetch("delivery", LANGUAGE_CODES[1], "url_slug")>>]

\* searchAllItemsDeliveryApi(targetSlug) called once searchWithDeliveryApi has
\* returned deliveryApi: its configuration check, then its first fetch
searchAllItemsStart(run, deliveryApi, cfg) ==
    LET r1 == [run EXCEPT !.deliveryApi = deliveryApi, !.allItems = <<>>]
    IN IF ~isConfigValid(cfg)
       THEN SearchResult(r1,
                createErrorResult(<<MissingConfiguration>>, "delivery-sdk-all"), cfg)
       ELSE [r1 EXCEPT !.pc = "all", !.client = cfg.environmentId, !.i = 1,
                       !.fetches = Append(@, Fetch("all", LANGUAGE_CODES[1], "all"))]

\* searchWithDeliveryApi resumed by the response or the rejection (ok false)
\* of a lookup: the try/catch of the lookup, then the next lookup or the return
searchWithDeliveryApiResume(run, ok, response, cfg) ==
    LET lang == run.langs[run.i]
        field == run.fetches[Len(run.fetches)].field
        allItems == IF ok
                    THEN run.allItems \o
                           MapSeq(response, LAMBDA item : formatSDKItem(item, lang))
                    ELSE run.allItems
        settled == Settle(run.fetches, IF ok THEN "ok" ELSE "failed")
    IN IF field = "url_slug"
       THEN [run EXCEPT !.allItems = allItems,
                        !.fetches = Append(settled, Fetch("delivery", lang, "slug"))]
       ELSE IF run.i < Len(run.langs)
       THEN [run EXCEPT !.allItems = allItems, !.i = @ + 1,
                        !.fetches = Append(settled,
                            Fetch("delivery", run.langs[run.i + 1], "url_slug"))]
       ELSE searchAllItemsStart([run EXCEPT !.fetches = settled],
                                DeliveryApiResult(allItems), cfg)

\* searchAllItemsDeliveryApi resumed by a response: the rest of the loop, the
\* exact matches, and the end of searchSpecificSlug
searchAllItemsResume(run, response, cfg) ==
    LET lang == run.langs[run.i]
        allItems == run.allItems \o
                      MapSeq(itemsWithSlugs(response),
                             LAMBDA item : formatSDKItem(item, lang))
        settled == Settle(run.fetches, "ok")
    IN IF run.i < Len(run.langs)
       THEN [run EXCEPT !.allItems = allItems, !.i = @ + 1,
                        !.fetches = Append(settled,
                            Fetch("all", run.langs[run.i + 1], "all"))]
       ELSE SearchResult([run EXCEPT !.allItems = allItems, !.fetches = settled],
                         AllItemsResult(allItems, run.targetSlug), cfg)

\* mutant: the rejection is not caught by the strategy and reaches the catch
\* block of searchSpecificSlug
searchAllItemsCatchRethrow(run, cfg) ==
    [run EXCEPT !.pc = "done", !.fetches = Settle(run.fetches, "failed"),
                !.result = [success |-> FALSE, items |-> <<>>,
                            error |-> <<"Unexpected error: ", FetchError>>,
                            method |-> "error"]]

\* searchAllItemsDeliveryApi resumed by a rejection: its catch block, and the
\* end of searchSpecificSlug
searchAllItemsCatch(run, cfg) ==
    SearchResult([run EXCEPT !.fetches = Settle(run.fetches, "failed")],
                 createErrorResult(FetchError, "delivery-sdk-all"), cfg)

-----------------------------------------------------------------------------
(* main.ts: the handlers of a search *)

\* click on execute-search-btn, or Enter in slug-input:
\* handleSlugSearchClick up to its await
handleSlugSearchClick ==
    /\ booted
    /\ screen.search
    /\ budget.runs > 0
    /\ \E input \in inputs.slug :
         LET value == Word(Trim(input))
         IN IF ~Truthy(value)
            THEN UNCHANGED <<runs, budget>>
            ELSE /\ runs' = Append(runs, searchSpecificSlugStart(appConfig, value))
                 /\ budget' = [budget EXCEPT !.runs = @ - 1]
    /\ screen' = ScreenOther(screen)
    /\ UNCHANGED <<env, appConfig, userHasConfiguredLanguages, booted,
                   pendingContext, content, inputs>>

\* a lookup of searchWithDeliveryApi in search r returns or fails
SearchLookupReturns(r) ==
    /\ runs[r].kind = "search"
    /\ runs[r].pc = "delivery"
    /\ \E ok \in BOOLEAN :
         /\ ok \/ budget.faults > 0
         /\ LET run == runs[r]
                pending == run.fetches[Len(run.fetches)]
                next == searchWithDeliveryApiResume(run, ok,
                            FetchEquals(content, pending.lang, pending.field,
                                        run.targetSlug),
                            appConfig)
            IN /\ runs' = [runs EXCEPT ![r] = next]
               /\ screen' = IF next.pc = "done" THEN ScreenOther(screen) ELSE screen
         /\ budget' = IF ok THEN budget ELSE [budget EXCEPT !.faults = @ - 1]
    /\ UNCHANGED <<env, appConfig, userHasConfiguredLanguages, booted,
                   pendingContext, content, inputs>>

\* a fetch of searchAllItemsDeliveryApi in search r returns or fails
SearchAllItemsFetchReturns(r) ==
    /\ runs[r].kind = "search"
    /\ runs[r].pc = "all"
    /\ \E ok \in BOOLEAN :
         /\ ok \/ budget.faults > 0
         /\ LET run == runs[r]
                next == IF ok
                        THEN searchAllItemsResume(run,
                                 FetchAll(content, run.langs[run.i]), appConfig)
                        ELSE searchAllItemsCatch(run, appConfig)
            IN /\ runs' = [runs EXCEPT ![r] = next]
               /\ screen' = IF next.pc = "done" THEN ScreenOther(screen) ELSE screen
         /\ budget' = IF ok THEN budget ELSE [budget EXCEPT !.faults = @ - 1]
    /\ UNCHANGED <<env, appConfig, userHasConfiguredLanguages, booted,
                   pendingContext, content, inputs>>

-----------------------------------------------------------------------------
(* Inputs *)

\* the sequences over S of length at most n
SeqsUpTo(S, n) == UNION {[1..k -> S] : k \in 0..n}

\* the smaller of two numbers
Min(a, b) == IF a < b THEN a ELSE b

\* a response lists a content item once: no codename twice
OncePerItem(response) ==
    \A j, k \in 1..Len(response) :
        j # k => response[j].codename # response[k].codename

\* the repositories holding at most n items of the pool, spread over the
\* languages de, en (and zh when withZh); the items under a language are
\* what a fetch for it returns, language fallback included
Repositories(pool, n, withZh) ==
    {[l \in Languages |->
        CASE l = "de" -> SubSeq(s, 1, Min(j, Len(s)))
          [] l = "en" -> SubSeq(s, Min(j, Len(s)) + 1,
                                IF withZh THEN Min(j + k, Len(s)) ELSE Len(s))
          [] l = "zh" -> IF withZh THEN SubSeq(s, Min(j + k, Len(s)) + 1, Len(s))
                         ELSE <<>>]
       : s \in SeqsUpTo(pool, n), j \in 0..n, k \in IF withZh THEN 0..n ELSE {0}}

\* the items of a detection run: two entities sharing a slug, language
\* variants of one entity, a slug in the slug element only, an item with no
\* slug, an item with defaulted fields, a codename naming an inherited
\* property of objects
DetectPool ==
    {Item("Home", "a", "en", "s", Undefined),
     Item("Heim", "a", "de", "", "s"),
     Item("B", "b", "en", "s", "t"),
     Item("", "", "", Undefined, "t"),
     Item("C", "constructor", "en", "s", Undefined),
     Item("D", "b", "de", "", Undefined)}

\* the language lists a user can apply (empty: the default language is used)
DetectLanguageLists ==
    {<<>>, <<"en">>, <<"de", "en">>, <<"en", "de">>, <<"en", "en">>}

\* import.meta.env with no variable set
EnvEmpty ==
    [VITE_KONTENT_ENVIRONMENT_ID |-> <<>>,
     VITE_KONTENT_LANGUAGES |-> <<>>,
     VITE_KONTENT_DEFAULT_LANGUAGE |-> <<>>]

NoPending == [app |-> 0, click |-> 0, overtaken |-> FALSE]

\* a user who types nothing
NoInputs == [slug |-> {}, languages |-> {}, defaultLanguage |-> {}]

-----------------------------------------------------------------------------
(* Detection: one run over every repository, with the configuration a user  *)
(* has reached by Show Config and Apply                                     *)

InitDetect ==
    /\ env = EnvEmpty
    /\ \E ls \in DetectLanguageLists :
         appConfig = [AppConfigInitial EXCEPT !.environmentId = "ctx-env",
                                              !.languages = ls]
    /\ userHasConfiguredLanguages = TRUE
    /\ booted = TRUE
    /\ screen = [result |-> "config", search |-> FALSE]
    /\ pendingContext = NoPending
    /\ content \in {c \in Repositories(DetectPool, MaxItems, FALSE) :
                        \A l \in Languages : OncePerItem(c[l])}
    /\ runs = <<>>
    /\ inputs = NoInputs
    /\ budget = [runs |-> 1, faults |-> 1]

NextDetect ==
    \/ handleFindDuplicatesClick
    \/ \E r \in 1..Len(runs) : FindFetchReturns(r)

SpecDetect == InitDetect /\ [][NextDetect]_vars

-----------------------------------------------------------------------------
(* main.ts: start-up and the configuration handlers *)

\* initializeConfig() is called: its code up to the await; who awaits the
\* context ("app": initializeApp, "click": handleConfigClick)
CallInitializeConfig(who) ==
    /\ appConfig' = InitializeConfigSync(appConfig, userHasConfiguredLanguages, env)
    /\ pendingContext' = [pendingContext EXCEPT ![who] = @ + 1, !.overtaken = FALSE]

\* the context gave an environment id initializeConfig uses
Supplied(ctx) == ~ctx.throws /\ ~ctx.isError /\ Truthy(ctx.environmentId)

\* getCustomAppContext() settles with ctx for a suspended initializeConfig,
\* which runs to its end; overtaken records that a call is still suspended
\* whose write of the VITE value has been replaced by this call's context id
InitializeConfigCompletes(who, ctx) ==
    /\ pendingContext[who] > 0
    /\ appConfig' = InitializeConfigResume(appConfig, ctx)
    /\ LET left == [pendingContext EXCEPT ![who] = @ - 1]
       IN pendingContext' =
            [left EXCEPT !.overtaken = /\ left.app + left.click > 0
                                       /\ (Supplied(ctx) \/ @)]

\* DOMContentLoaded: initializeApp up to its await
initializeApp ==
    /\ ~booted
    /\ booted' = TRUE
    /\ CallInitializeConfig("app")
    /\ UNCHANGED <<env, userHasConfiguredLanguages, screen, content, inputs, runs, budget>>

\* getCustomAppContext() settles for the initializeConfig of initializeApp
initializeAppResumes ==
    /\ \E ctx \in ContextOutcomes : InitializeConfigCompletes("app", ctx)
    /\ UNCHANGED <<env, userHasConfiguredLanguages, booted, screen, content, inputs,
                   runs, budget>>

\* mutant: every click initializes the configuration from the environment
\* variables, languages included
ConfigClickBodyReloads ==
    /\ pendingContext.click < MaxPending
    /\ appConfig' = InitializeConfigSync(appConfig, FALSE, env)
    /\ pendingContext' = [pendingContext EXCEPT !.click = @ + 1, !.overtaken = FALSE]
    /\ screen' = [result |-> "other", search |-> FALSE]

\* handleConfigClick up to its await, or to its end when the user has
\* configured languages
ConfigClickBody ==
    IF ~userHasConfiguredLanguages
    THEN /\ pendingContext.click < MaxPending
         /\ CallInitializeConfig("click")
         /\ screen' = [result |-> "other", search |-> FALSE]
    ELSE /\ screen' = [result |-> "config", search |-> FALSE]
         /\ UNCHANGED <<appConfig, pendingContext>>

\* click on config-btn or on the back button of the language screen, or the
\* timer of an Apply fires
handleConfigClick ==
    /\ booted
    /\ ConfigClickBody
    /\ UNCHANGED <<env, userHasConfiguredLanguages, booted, content, inputs, runs, budget>>

\* getCustomAppContext() settles for the initializeConfig of a
\* handleConfigClick, which then renders the configuration
handleConfigClickResumes ==
    /\ \E ctx \in ContextOutcomes : InitializeConfigCompletes("click", ctx)
    /\ screen' = [screen EXCEPT !.result = "config"]
    /\ UNCHANGED <<env, userHasConfiguredLanguages, booted, content, inputs, runs, budget>>

\* click on search-btn: the search section is shown or hidden
searchBtnClick ==
    /\ booted
    /\ screen' = [result |-> "other", search |-> ~screen.search]
    /\ UNCHANGED <<env, appConfig, userHasConfiguredLanguages, booted,
                   pendingContext, content, inputs, runs, budget>>

\* click on configure-languages-btn of the configuration screen
configureLanguagesClick ==
    /\ screen.result = "config"
    /\ screen' = [screen EXCEPT !.result = "lang"]
    /\ UNCHANGED <<env, appConfig, userHasConfiguredLanguages, booted,
                   pendingContext, content, inputs, runs, budget>>

\* languagesValue.split(",").map(lang => lang.trim()).filter(lang => lang)
AppliedLanguages(languagesValue) ==
    SelectSeq(MapSeq(SplitComma(languagesValue), LAMBDA seg : Word(Trim(seg))),
              Truthy)

\* click on apply-languages-btn of the language screen; the handleConfigClick
\* it schedules 1.5 s later is one of the occurrences of handleConfigClick
applyLanguagesClick ==
    /\ screen.result = "lang"
    /\ \E languagesInput \in inputs.languages, defaultLangInput \in inputs.defaultLanguage :
         LET languagesValue == Trim(languagesInput)
             defaultLangValue == Trim(defaultLangInput)
             c1 == [appConfig EXCEPT !.languages =
                       IF languagesValue # <<>>
                       THEN AppliedLanguages(languagesValue) ELSE <<>>]
         IN appConfig' = IF defaultLangValue # <<>>
                         THEN [c1 EXCEPT !.defaultLanguage = Word(defaultLangValue)]
                         ELSE c1
    /\ userHasConfiguredLanguages' = TRUE
    /\ UNCHANGED <<env, booted, screen, pendingContext, content, inputs, runs, budget>>

\* mutant: Reset also calls resetUserConfiguredLanguages()
resetLanguagesClickClearsFlag ==
    /\ screen.result = "lang"
    /\ appConfig' = [appConfig EXCEPT !.languages = <<>>, !.defaultLanguage = "en"]
    /\ userHasConfiguredLanguages' = FALSE
    /\ UNCHANGED <<env, booted, screen, pendingContext, content, inputs, runs, budget>>

\* click on reset-languages-btn of the language screen
resetLanguagesClick ==
    /\ screen.result = "lang"
    /\ appConfig' = [appConfig EXCEPT !.languages = <<>>, !.defaultLanguage = "en"]
    /\ UNCHANGED <<env, userHasConfiguredLanguages, booted, screen,
                   pendingContext, content, inputs, runs, budget>>

-----------------------------------------------------------------------------
(* The application: every handler, from the loading of the page            *)

\* the VITE_* variables of a deployment
Environments ==
    {[VITE_KONTENT_ENVIRONMENT_ID |-> id,
      VITE_KONTENT_LANGUAGES |-> <<>>,
      VITE_KONTENT_DEFAULT_LANGUAGE |-> <<>>] : id \in {<<>>, <<"env-id">>}}

\* a repository with one entity in two languages
SmallRepository ==
    [l \in Languages |->
        IF l = "zh" THEN <<>> ELSE <<Item("Home", "a", l, "s", Undefined)>>]

Init ==
    /\ env \in Environments
    /\ appConfig = AppConfigInitial
    /\ userHasConfiguredLanguages = FALSE
    /\ booted = FALSE
    /\ screen = [result |-> "other", search |-> FALSE]
    /\ pendingContext = NoPending
    /\ content = SmallRepository
    /\ runs = <<>>
    /\ inputs = [slug |-> {<<" ">>, <<"s", " ">>},
                 languages |-> {<<>>, <<"en", ",", " ", "de", ",">>},
                 defaultLanguage |-> {<<>>}]
    /\ budget = [runs |-> MaxRuns, faults |-> 0]

Next ==
    \/ initializeApp
    \/ initializeAppResumes
    \/ handleConfigClick
    \/ handleConfigClickResumes
    \/ searchBtnClick
    \/ configureLanguagesClick
    \/ applyLanguagesClick
    \/ resetLanguagesClick
    \/ handleFindDuplicatesClick
    \/ handleSlugSearchClick
    \/ \E r \in 1..Len(runs) : FindFetchReturns(r)
    \/ \E r \in 1..Len(runs) : SearchLookupReturns(r)
    \/ \E r \in 1..Len(runs) : SearchAllItemsFetchReturns(r)

Spec == Init /\ [][Next]_vars

-----------------------------------------------------------------------------
(* Vocabulary of the properties *)

\* a result carries the error field
HasError(res) == "error" \in DOMAIN res

\* the detection runs
FindRuns == {r \in 1..Len(runs) : runs[r].kind = "find"}

\* the detection runs that have returned
DoneFindRuns == {r \in FindRuns : runs[r].pc = "done"}

\* every fetch of the run succeeded and the run has returned
AllFetched(run) ==
    /\ run.pc = "done"
    /\ run.valid
    /\ \A k \in 1..Len(run.fetches) : run.fetches[k].outcome = "ok"

\* the codenames of the records a list of items puts under slug
CodenamesUnder(items, slug) ==
    {Or(items[k].codename, "unknown") :
        k \in {j \in 1..Len(items) : SlugOf(items[j]) = slug}}

\* the slugs of a list of items
SlugsOf(items) == {SlugOf(items[k]) : k \in 1..Len(items)}

\* the slugs a result reports as duplicates
ReportedSlugs(res) == {res.duplicates[k].slug : k \in 1..Len(res.duplicates)}

\* the language tags of a joined language string
Tags(joined) == MapSeq(SplitComma(joined), LAMBDA seg : Word(Trim(seg)))

\* no element occurs twice
NoRepeat(seq) == \A j, k \in 1..Len(seq) : j # k => seq[j] # seq[k]

RECURSIVE SumItems(_)
\* the sum of the list lengths of a slug map
SumItems(m) == IF m = <<>> THEN 0 ELSE Len(Head(m).items) + SumItems(Tail(m))

-----------------------------------------------------------------------------
(* C1 *)

\* C1 (as claimed): after a detection run whose fetches all succeeded, a slug
\* is among the reported duplicates if and only if the records under it have
\* at least 2 distinct codenames.
C1_SlugReportedIffTwoCodenames ==
    \A r \in DoneFindRuns :
        AllFetched(runs[r]) =>
            \A slug \in SlugsOf(runs[r].allItems) :
                slug \in ReportedSlugs(runs[r].result)
                    <=> Cardinality(CodenamesUnder(runs[r].allItems, slug)) >= 2

-----------------------------------------------------------------------------
(* C2 *)

\* C2: buildSlugMap partitions the fetched items by slug: the keys are
\* distinct, they are the slugs of the items, the list under a key is the
\* records of exactly the items with that slug, in input order, and the list
\* lengths sum to the number of items; a successful result reports these
\* two counts.
C2_SlugMapPartitionsItems ==
    \A r \in FindRuns :
        LET items == runs[r].allItems
            m == buildSlugMap(items)
        IN /\ NoRepeat(MapSeq(m, LAMBDA e : e.slug))
           /\ {m[k].slug : k \in 1..Len(m)} = SlugsOf(items)
           /\ \A k \in 1..Len(m) :
                m[k].items =
                    MapSeq(SelectSeq(items, LAMBDA it : SlugOf(it) = m[k].slug),
                           SlugRecord)
           /\ SumItems(m) = Len(items)
           /\ (runs[r].pc = "done" /\ runs[r].valid /\ ~HasError(runs[r].result))
                => /\ runs[r].result.uniqueSlugs = Cardinality(SlugsOf(items))
                   /\ runs[r].result.totalItems = SumItems(m)

\* C2 witness: a run has returned with three items under two slugs
C2_Witness ==
    \E r \in DoneFindRuns :
        /\ ~HasError(runs[r].result)
        /\ Len(runs[r].allItems) >= 3
        /\ runs[r].result.uniqueSlugs = 2

-----------------------------------------------------------------------------
(* C3 *)

\* C3 (as claimed): for every slug with records of 2 or more codenames,
\* groupItemsByCodename returns one summary per distinct codename, and the
\* languages of a summary are those of exactly the records of its codename.
C3_OneSummaryPerCodename ==
    \A r \in DoneFindRuns :
        \A k \in 1..Len(buildSlugMap(runs[r].allItems)) :
            LET entry == buildSlugMap(runs[r].allItems)[k]
                g == groupItemsByCodename(entry.items)
            IN isTrueDuplicate(entry) =>
                 /\ ~g.threw
                 /\ Len(g.value) = Cardinality(uniqueCodenames(entry.items))
                 /\ Len(g.value) >= 2
                 /\ {g.value[j].codename : j \in 1..Len(g.value)}
                        = uniqueCodenames(entry.items)
                 /\ \A j \in 1..Len(g.value) :
                      g.value[j].language =
                        JoinCommaSpace(MapSeq(
                          SelectSeq(entry.items,
                            LAMBDA rec : rec.codename = g.value[j].codename),
                          LAMBDA rec : rec.language))

-----------------------------------------------------------------------------
(* C4 *)

\* C4 (as claimed): in every group a detection run returns, no entity
\* summary lists a language tag twice.
C4_NoRepeatedLanguage ==
    \A r \in DoneFindRuns :
        \A k \in 1..Len(runs[r].result.duplicates) :
            \A j \in 1..Len(runs[r].result.duplicates[k].items) :
                NoRepeat(Tags(runs[r].result.duplicates[k].items[j].language))

-----------------------------------------------------------------------------
(* C7 *)

\* C7: a detection run with a valid configuration whose fetches all succeed
\* with zero items returns exactly {duplicates: [], totalItems: 0,
\* uniqueSlugs: 0}, with no error field.
C7_EmptyRepositoryResult ==
    \A r \in DoneFindRuns :
        (/\ AllFetched(runs[r])
         /\ \A k \in 1..Len(runs[r].fetches) :
              FetchAll(content, runs[r].fetches[k].lang) = <<>>)
        => runs[r].result =
              [duplicates |-> <<>>, totalItems |-> 0, uniqueSlugs |-> 0]

\* C7 witness: a run over two languages has returned, every fetch having
\* succeeded with no item
C7_Witness ==
    \E r \in DoneFindRuns :
        /\ AllFetched(runs[r])
        /\ Len(runs[r].fetches) = 2
        /\ \A k \in 1..Len(runs[r].fetches) :
             FetchAll(content, runs[r].fetches[k].lang) = <<>>

-----------------------------------------------------------------------------
(* C9 *)

\* C9: in a detection run a failed fetch is the last fetch of the run (no
\* later language is fetched, the fetch is not issued again), fetches go
\* through the language list in order, and the run has returned exactly
\* {duplicates: [], error}: no totalItems, no uniqueSlugs, nothing of the
\* languages fetched before.
C9_FailedFetchAbortsRun ==
    \A r \in FindRuns :
        \A k \in 1..Len(runs[r].fetches) :
            /\ k <= Len(runs[r].langs)
            /\ runs[r].fetches[k].lang = runs[r].langs[k]
            /\ runs[r].fetches[k].outcome = "failed" =>
                 /\ k = Len(runs[r].fetches)
                 /\ runs[r].pc = "done"
                 /\ runs[r].result = DuplicateErrorResult(FetchError)

\* C9 witness: the fetch of the first of two languages returned items with
\* slugs, the fetch of the second failed
C9_Witness ==
    \E r \in DoneFindRuns :
        /\ Len(runs[r].langs) = 2
        /\ Len(runs[r].fetches) = 2
        /\ runs[r].fetches[2].outcome = "failed"
        /\ runs[r].allItems # <<>>

-----------------------------------------------------------------------------
(* Search: one search over every repository, with a valid configuration    *)

\* the items of a search: a slug in url_slug, a slug in the slug element
\* only, different values in the two elements, the same value in both, and
\* a language variant of an entity
SearchPool ==
    {Item("Home", "a", "en", "s", Undefined),
     Item("B", "b", "en", "", "s"),
     Item("C", "c", "en", "t", "s"),
     Item("Heim", "a", "de", "s", "s")}

InitSearch ==
    /\ env = EnvEmpty
    /\ appConfig = [AppConfigInitial EXCEPT !.environmentId = "ctx-env"]
    /\ userHasConfiguredLanguages = FALSE
    /\ booted = TRUE
    /\ screen = [result |-> "other", search |-> TRUE]
    /\ pendingContext = NoPending
    /\ content \in {c \in Repositories(SearchPool, MaxItems - 1, TRUE) :
                        \A l \in Languages : OncePerItem(c[l])}
    /\ runs = <<>>
    /\ inputs = [NoInputs EXCEPT !.slug = {<<" ">>, <<"s">>, <<"t", " ">>}]
    /\ budget = [runs |-> 1, faults |-> MaxFaults]

NextSearch ==
    \/ handleSlugSearchClick
    \/ \E r \in 1..Len(runs) : SearchLookupReturns(r)
    \/ \E r \in 1..Len(runs) : SearchAllItemsFetchReturns(r)

SpecSearch == InitSearch /\ [][NextSearch]_vars

-----------------------------------------------------------------------------
(* C5 *)

\* the searches that have returned
DoneSearchRuns == {r \in 1..Len(runs) : runs[r].kind = "search" /\ runs[r].pc = "done"}

\* the deduplication key of a record
Key(item) == <<item.codename, item.language>>

\* the keys of a list of records
Keys(items) == {Key(items[k]) : k \in 1..Len(items)}

\* the positions of a list whose key occurs at no earlier position
FirstPositions(items) ==
    {k \in 1..Len(items) : \A j \in 1..(k - 1) : Key(items[j]) # Key(items[k])}

\* the j-th smallest element of a set of numbers
Nth(S, j) == CHOOSE k \in S : Cardinality({i \in S : i < k}) = j - 1

\* what searchSpecificSlug concatenates
Concatenation(res) ==
    res.deliveryApi.items \o res.deliveryApiAllItems.items \o res.managementApi.items

\* C5: the items of a search result are the concatenation of the strategy
\* outputs with every (codename, language) key exactly once and no key lost;
\* the record kept for a key is the first with that key, the kept records
\* keep their order, and removing duplicates again changes nothing.
C5_MergeKeepsFirstOfEachKey ==
    \A r \in DoneSearchRuns :
        runs[r].result.success =>
            LET all == Concatenation(runs[r].result)
                out == runs[r].result.items
            IN /\ NoRepeat(MapSeq(out, Key))
               /\ Keys(out) = Keys(all)
               /\ Len(out) = Cardinality(FirstPositions(all))
               /\ \A j \in 1..Len(out) : out[j] = all[Nth(FirstPositions(all), j)]
               /\ removeDuplicateItems(out) = out
               /\ runs[r].result.totalItems = Len(out)

\* C5 witness: a search has returned whose strategies found the same two
\* records in different orders
C5_Witness ==
    \E r \in DoneSearchRuns :
        /\ runs[r].result.success
        /\ Len(runs[r].result.items) = 2
        /\ Len(Concatenation(runs[r].result)) = 4
        /\ runs[r].result.deliveryApi.items # runs[r].result.deliveryApiAllItems.items

-----------------------------------------------------------------------------
(* C6 *)

\* the fetches of a run issued by one strategy
FetchesBy(run, by) == {k \in 1..Len(run.fetches) : run.fetches[k].by = by}

\* every fetch of a strategy succeeded
Unfailed(run, by) ==
    \A k \in FetchesBy(run, by) : run.fetches[k].outcome = "ok"

\* the records the fetch at position k of the log returned that use the
\* target slug
Returned(run, k) ==
    LET f == run.fetches[k]
    IN IF f.by = "delivery"
       THEN {formatSDKItem(it, f.lang) :
                it \in Range(FetchEquals(content, f.lang, f.field, run.targetSlug))}
       ELSE {rec \in {formatSDKItem(it, f.lang) :
                        it \in Range(itemsWithSlugs(FetchAll(content, f.lang)))} :
                rec.slug = run.targetSlug}

\* C6: with a valid configuration a search returns success = true whatever
\* fetches fail, and every lookup is still issued (2 per language by
\* searchWithDeliveryApi, then searchAllItemsDeliveryApi is called); the
\* records of every lookup of searchWithDeliveryApi that succeeded are in
\* the merged items, and so are the matching records of the fetches of
\* searchAllItemsDeliveryApi that succeeded when the fetches that failed
\* are all in one strategy.
C6_FailedFetchIsIsolated ==
    \A r \in DoneSearchRuns :
        runs[r].valid =>
            /\ runs[r].result.success
            /\ ~HasError(runs[r].result)
            /\ Cardinality(FetchesBy(runs[r], "delivery")) = 2 * Len(LANGUAGE_CODES)
            /\ FetchesBy(runs[r], "all") # {}
            /\ \A k \in 1..Len(runs[r].fetches) :
                 (/\ runs[r].fetches[k].outcome = "ok"
                  /\ \/ runs[r].fetches[k].by = "delivery"
                     \/ Unfailed(runs[r], "all")
                     \/ Unfailed(runs[r], "delivery"))
                 => Returned(runs[r], k) \subseteq Range(runs[r].result.items)

\* C6 witness: a lookup of searchWithDeliveryApi failed, a fetch of
\* searchAllItemsDeliveryApi failed after one that had returned a matching
\* record, and the search returned items
C6_Witness ==
    \E r \in DoneSearchRuns :
        /\ runs[r].valid
        /\ ~Unfailed(runs[r], "delivery")
        /\ \E k \in FetchesBy(runs[r], "all") :
             /\ runs[r].fetches[k].outcome = "ok"
             /\ Returned(runs[r], k) # {}
        /\ ~Unfailed(runs[r], "all")
        /\ runs[r].result.items # <<>>


-----------------------------------------------------------------------------
(* Invocations and the configuration (the application, Spec)                *)

\* the runs whose configuration was not valid when they were entered
InvalidAtEntry == {r \in 1..Len(runs) : ~Truthy(runs[r].entryId)}

\* the runs whose configuration was valid when they were entered
ValidAtEntry == {r \in 1..Len(runs) : Truthy(runs[r].entryId)}

\* C8: an invocation entered while isConfigValid() is false has returned at
\* once, without a fetch and without a strategy; findDuplicateSlugs returns
\* an error with empty duplicates, searchSpecificSlug returns success false,
\* method "none" and no items
C8_InvalidConfigurationNoFetch ==
    \A r \in InvalidAtEntry :
        /\ runs[r].pc = "done"
        /\ runs[r].fetches = <<>>
        /\ runs[r].deliveryApi = NoResult
        /\ runs[r].deliveryApiAllItems = NoResult
        /\ runs[r].kind = "find" =>
              /\ HasError(runs[r].result)
              /\ runs[r].result.duplicates = <<>>
        /\ runs[r].kind = "search" =>
              /\ runs[r].result.success = FALSE
              /\ runs[r].result.method = "none"
              /\ runs[r].result.items = <<>>

\* a search was entered with a configuration that is not valid
C8_Witness ==
    \E r \in InvalidAtEntry :
        /\ runs[r].kind = "search"
        /\ runs[r].targetSlug = "s"
        /\ runs[r].pc = "done"

\* the fetches of a search whose fetches all succeed
FetchesOfSearch ==
    LET lookups(k) ==
            <<[by |-> "delivery", lang |-> LANGUAGE_CODES[k], field |-> "url_slug",
               outcome |-> "ok"],
              [by |-> "delivery", lang |-> LANGUAGE_CODES[k], field |-> "slug",
               outcome |-> "ok"]>>
        all(k) == [by |-> "all", lang |-> LANGUAGE_CODES[k], field |-> "all",
                   outcome |-> "ok"]
    IN lookups(1) \o lookups(2) \o lookups(3) \o <<all(1), all(2), all(3)>>

\* C10: an invocation reads the configuration only at its start: whatever
\* the handlers do to appConfig while it is suspended, it keeps fetching from
\* the environment it was entered with, and a search entered with a valid
\* configuration performs every fetch of both strategies and returns the
\* result of both
C10_ConfigurationReadAtStartOnly ==
    \A r \in ValidAtEntry :
        /\ runs[r].client = runs[r].entryId
        /\ (runs[r].kind = "search" /\ runs[r].pc = "done") =>
              /\ runs[r].fetches = FetchesOfSearch
              /\ runs[r].result.deliveryApi.success
              /\ runs[r].result.deliveryApiAllItems.success
        /\ (runs[r].kind = "find" /\ runs[r].pc = "done") =>
              /\ Len(runs[r].fetches) = Len(runs[r].langs)
              /\ ~HasError(runs[r].result)

-----------------------------------------------------------------------------
(* Clicks while an invocation is suspended (SpecClicks)                     *)

InitClicks ==
    /\ env = EnvEmpty
    /\ appConfig = [AppConfigInitial EXCEPT !.environmentId = "ctx-env"]
    /\ userHasConfiguredLanguages = FALSE
    /\ booted = TRUE
    /\ screen = [result |-> "other", search |-> FALSE]
    /\ pendingContext = NoPending
    /\ content = SmallRepository
    /\ runs = <<>>
    /\ inputs = [NoInputs EXCEPT !.slug = {<<"s">>}]
    /\ budget = [runs |-> MaxRuns + 1, faults |-> 0]

NextClicks ==
    \/ searchBtnClick
    \/ handleFindDuplicatesClick
    \/ handleSlugSearchClick
    \/ \E r \in 1..Len(runs) : FindFetchReturns(r)
    \/ \E r \in 1..Len(runs) : SearchLookupReturns(r)
    \/ \E r \in 1..Len(runs) : SearchAllItemsFetchReturns(r)

SpecClicks == InitClicks /\ [][NextClicks]_vars

\* the invocations of one kind that have not returned
InProgress(kind) == {r \in 1..Len(runs) : runs[r].kind = kind /\ runs[r].pc # "done"}

\* C11: at most one findDuplicateSlugs and at most one searchSpecificSlug is
\* in progress at any time: an invocation starts only after the previous
\* invocation of the same operation has returned
C11_NoOverlappingInvocations ==
    /\ Cardinality(InProgress("find")) <= 1
    /\ Cardinality(InProgress("search")) <= 1

-----------------------------------------------------------------------------
(* Detection: results, slug extraction, fetch order, summaries (SpecDetect) *)

\* C12 (as claimed): a result of findDuplicateSlugs either has an error, and
\* then only empty duplicates beside it, or has no error and carries
\* totalItems and uniqueSlugs; it has an error exactly when the
\* configuration was not valid at entry or a fetch failed.
C12_ErrorExactlyOnBoundaryFailure ==
    \A r \in DoneFindRuns :
        LET run == runs[r]
            res == run.result
        IN /\ HasError(res) =>
                /\ res.duplicates = <<>>
                /\ DOMAIN res = {"duplicates", "error"}
           /\ ~HasError(res) => {"totalItems", "uniqueSlugs"} \subseteq DOMAIN res
           /\ HasError(res) <=>
                \/ ~Truthy(run.entryId)
                \/ \E k \in 1..Len(run.fetches) : run.fetches[k].outcome = "failed"

\* a value is present: neither absent nor the empty string
NonEmpty(v) == v # Undefined /\ v # ""

\* the slug the extraction rule selects for an item, Undefined for none
SelectedSlug(item) ==
    IF NonEmpty(item.url_slug) THEN item.url_slug
    ELSE IF NonEmpty(item.slug) THEN item.slug
    ELSE Undefined

\* the field the extraction rule selects for an item
SelectedField(item) == IF NonEmpty(item.url_slug) THEN "url_slug" ELSE "slug"

\* what the repository returned to the first n fetches of a run, in order
Fetched(run, n) ==
    LET F[k \in 0..n] ==
            IF k = 0 THEN <<>>
            ELSE F[k - 1] \o FetchAll(content, run.fetches[k].lang)
    IN F[n]

\* C15: the index of a run whose fetches all succeeded holds, under each
\* slug, one record per fetched item for which the rule selects that slug
\* (url_slug when non-empty, else slug, "" counting as absent), in fetch
\* order, with slugField "url_slug" exactly when url_slug was selected; an
\* item with neither value has no record
C15_SlugAndFieldSelection ==
    \A r \in DoneFindRuns :
        AllFetched(runs[r]) =>
            LET fetched == Fetched(runs[r], Len(runs[r].fetches))
                index == buildSlugMap(runs[r].allItems)
                selected(slug) ==
                    SelectSeq(fetched, LAMBDA it : SelectedSlug(it) = slug)
            IN /\ {index[k].slug : k \in 1..Len(index)}
                     = {SelectedSlug(fetched[k]) : k \in 1..Len(fetched)}
                            \ {Undefined}
               /\ \A k \in 1..Len(index) :
                    /\ Len(index[k].items) = Len(selected(index[k].slug))
                    /\ \A j \in 1..Len(index[k].items) :
                         LET it == selected(index[k].slug)[j]
                             rec == index[k].items[j]
                         IN /\ rec.slugField = SelectedField(it)
                            /\ rec.codename = Or(it.codename, "unknown")
                            /\ rec.language = Or(it.language, "unknown")
               /\ SumItems(index) =
                    Cardinality({k \in 1..Len(fetched) :
                                    SelectedSlug(fetched[k]) # Undefined})

\* C15 witness: a run has indexed an item whose url_slug is "" under its
\* slug value, and has fetched an item with no slug
C15_Witness ==
    \E r \in DoneFindRuns :
        /\ AllFetched(runs[r])
        /\ LET fetched == Fetched(runs[r], Len(runs[r].fetches))
           IN /\ \E k \in 1..Len(fetched) :
                    fetched[k].url_slug = "" /\ NonEmpty(fetched[k].slug)
              /\ \E k \in 1..Len(fetched) : SelectedSlug(fetched[k]) = Undefined
              /\ \E k \in 1..Len(fetched) : NonEmpty(fetched[k].url_slug)

\* the fetches of a run that have not returned
InFlight(run) == {k \in 1..Len(run.fetches) : run.fetches[k].outcome = "pending"}

\* C16: a detection run fetches its languages one at a time in list order:
\* the k-th fetch is for the k-th language, every fetch before the last one
\* issued has succeeded, at most one fetch is in flight, and a run that
\* returns without a failed fetch has issued exactly one fetch per entry
C16_OneFetchAtATimeInOrder ==
    \A r \in FindRuns :
        LET run == runs[r]
        IN /\ Len(run.fetches) <= Len(run.langs)
           /\ \A k \in 1..Len(run.fetches) :
                /\ run.fetches[k].lang = run.langs[k]
                /\ k < Len(run.fetches) => run.fetches[k].outcome = "ok"
           /\ Cardinality(InFlight(run)) <= 1
           /\ run.pc = "fetch" => InFlight(run) = {Len(run.fetches)}
           /\ run.pc = "done" => InFlight(run) = {}
           /\ AllFetched(run) => Len(run.fetches) = Len(run.langs)

\* C16 witness: the second of two different languages is being fetched
C16_Witness ==
    \E r \in FindRuns :
        /\ runs[r].pc = "fetch"
        /\ Len(runs[r].langs) = 2
        /\ runs[r].langs[1] # runs[r].langs[2]
        /\ Len(runs[r].fetches) = 2

\* C19: in every summary of a reported group, codename is the codename of
\* the records it stands for, and name and slugField are those of the first
\* record of that codename under the slug, in index insertion order
C19_SummaryFromFirstRecord ==
    \A r \in DoneFindRuns :
        \A k \in 1..Len(runs[r].result.duplicates) :
            LET group == runs[r].result.duplicates[k]
                index == buildSlugMap(runs[r].allItems)
                entry == CHOOSE e \in Range(index) : e.slug = group.slug
            IN \A j \in 1..Len(group.items) :
                 LET recs == SelectSeq(entry.items,
                               LAMBDA rec : rec.codename = group.items[j].codename)
                 IN /\ recs # <<>>
                    /\ group.items[j].name = recs[1].name
                    /\ group.items[j].slugField = recs[1].slugField

\* C19 witness: a reported group has a summary standing for two records
\* that differ in name and in slugField
C19_Witness ==
    \E r \in DoneFindRuns :
        \E k \in 1..Len(runs[r].result.duplicates) :
            LET group == runs[r].result.duplicates[k]
                index == buildSlugMap(runs[r].allItems)
                entry == CHOOSE e \in Range(index) : e.slug = group.slug
            IN \E j \in 1..Len(group.items) :
                 LET recs == SelectSeq(entry.items,
                               LAMBDA rec : rec.codename = group.items[j].codename)
                 IN /\ Len(recs) = 2
                    /\ recs[1].name # recs[2].name
                    /\ recs[1].slugField # recs[2].slugField

-----------------------------------------------------------------------------
(* Search languages (SpecSearch)                                            *)

\* the languages one strategy of a run has queried
LanguagesQueried(run, by) == {run.fetches[k].lang : k \in FetchesBy(run, by)}

\* C17 (as claimed): a search whose fetches all succeed has queried, with
\* each of its two strategies, exactly the languages getConfiguredLanguages()
\* returns
C17_SearchQueriesConfiguredLanguages ==
    \A r \in DoneSearchRuns :
        (runs[r].valid /\ Unfailed(runs[r], "delivery") /\ Unfailed(runs[r], "all")) =>
            /\ LanguagesQueried(runs[r], "delivery")
                  = Range(getConfiguredLanguages(appConfig))
            /\ LanguagesQueried(runs[r], "all")
                  = Range(getConfiguredLanguages(appConfig))

-----------------------------------------------------------------------------
(* The configuration (SpecConfig): every deployment, the loading of the     *)
(* page, Show Config, Apply and Reset, and one detection run                *)

\* the VITE_* variables of a deployment, languages and default language
\* included
ConfigEnvironments ==
    {[VITE_KONTENT_ENVIRONMENT_ID |-> id,
      VITE_KONTENT_LANGUAGES |-> ls,
      VITE_KONTENT_DEFAULT_LANGUAGE |-> dl] :
        id \in {<<>>, <<"env-id">>},
        ls \in {<<>>, <<"fr", ",", " ", "es", ",">>},
        dl \in {<<>>, <<" ">>, <<"fr", " ">>}}

InitConfig ==
    /\ env \in ConfigEnvironments
    /\ appConfig = AppConfigInitial
    /\ userHasConfiguredLanguages = FALSE
    /\ booted = FALSE
    /\ screen = [result |-> "other", search |-> FALSE]
    /\ pendingContext = NoPending
    /\ content = SmallRepository
    /\ runs = <<>>
    /\ inputs = [slug |-> {},
                 languages |-> {<<>>, <<"en", ",", " ", "de", ",">>},
                 defaultLanguage |-> {<<>>, <<" ", "de">>}]
    /\ budget = [runs |-> 1, faults |-> 0]

NextConfig ==
    \/ initializeApp
    \/ initializeAppResumes
    \/ handleConfigClick
    \/ handleConfigClickResumes
    \/ configureLanguagesClick
    \/ applyLanguagesClick
    \/ resetLanguagesClick
    \/ handleFindDuplicatesClick
    \/ \E r \in 1..Len(runs) : FindFetchReturns(r)

SpecConfig == InitConfig /\ [][NextConfig]_vars

\* the value of VITE_KONTENT_ENVIRONMENT_ID, empty when it is not set
ViteEnvironmentId ==
    IF env.VITE_KONTENT_ENVIRONMENT_ID = <<>> THEN ""
    ELSE env.VITE_KONTENT_ENVIRONMENT_ID[1]

\* the context was obtained without error and has a non-empty environment id
ContextHasId(ctx) ==
    ~ctx.throws /\ ~ctx.isError /\ ctx.environmentId # Undefined /\ ctx.environmentId # ""

\* the environment ids a context can supply
ContextIds == {ctx.environmentId : ctx \in {c \in ContextOutcomes : ContextHasId(c)}}

\* C13 (as claimed): whenever an initializeConfig completes,
\* appConfig.environmentId is the id of the context if the context has one,
\* and the value of VITE_KONTENT_ENVIRONMENT_ID otherwise
C13_EnvironmentIdAfterInitializeConfig ==
    [][\A who \in {"app", "click"}, ctx \in ContextOutcomes :
          InitializeConfigCompletes(who, ctx) =>
              appConfig'.environmentId =
                  IF ContextHasId(ctx) THEN ctx.environmentId
                  ELSE ViteEnvironmentId]_vars

\* C13 (amended): whenever an initializeConfig completes,
\* appConfig.environmentId is the id of the context if the context has one;
\* otherwise it is the value of VITE_KONTENT_ENVIRONMENT_ID, unless another
\* initializeConfig completed with a context id while this one was suspended
\* and none has started since: then that context id is kept
C13_EnvironmentIdUnlessOvertaken ==
    [][\A who \in {"app", "click"}, ctx \in ContextOutcomes :
          InitializeConfigCompletes(who, ctx) =>
              IF ContextHasId(ctx)
              THEN appConfig'.environmentId = ctx.environmentId
              ELSE IF pendingContext.overtaken
              THEN /\ appConfig'.environmentId = appConfig.environmentId
                   /\ appConfig'.environmentId \in ContextIds
              ELSE appConfig'.environmentId = ViteEnvironmentId]_vars

\* C13 witness: with VITE_KONTENT_ENVIRONMENT_ID set, an initializeConfig is
\* still suspended after another one has completed with a context id
C13_Witness ==
    /\ pendingContext.overtaken
    /\ pendingContext.app + pendingContext.click > 0
    /\ ViteEnvironmentId # ""
    /\ appConfig.environmentId \in ContextIds

\* C14: once the user has applied a language configuration, no
\* initializeConfig (its start or its completion) and no Show Config click
\* changes appConfig.languages or appConfig.defaultLanguage
C14_AppliedLanguagesSurviveInitializeConfig ==
    [][(/\ userHasConfiguredLanguages
        /\ \/ initializeApp
           \/ initializeAppResumes
           \/ handleConfigClick
           \/ handleConfigClickResumes)
       => /\ appConfig'.languages = appConfig.languages
          /\ appConfig'.defaultLanguage = appConfig.defaultLanguage]_vars

\* C14 witness: in a deployment that sets both language variables, the
\* configuration is shown again after an Apply, with the applied values
C14_Witness ==
    /\ userHasConfiguredLanguages
    /\ screen.result = "config"
    /\ env.VITE_KONTENT_LANGUAGES # <<>>
    /\ env.VITE_KONTENT_DEFAULT_LANGUAGE # <<>>
    /\ appConfig.languages = <<"en", "de">>
    /\ appConfig.defaultLanguage = "de"

\* C18: in every state getConfiguredLanguages() is appConfig.languages if
\* that list is not empty and the one-element list of the default language,
\* or of "en" if the default language is empty, otherwise; it is never empty,
\* and a detection run entered with a valid configuration fetches at least
\* one language
C18_ConfiguredLanguagesNeverEmpty ==
    /\ LET languages == getConfiguredLanguages(appConfig)
       IN /\ languages # <<>>
          /\ appConfig.languages # <<>> => languages = appConfig.languages
          /\ appConfig.languages = <<>> =>
                languages = <<IF appConfig.defaultLanguage = "" THEN "en"
                              ELSE appConfig.defaultLanguage>>
    /\ \A r \in FindRuns :
         Truthy(runs[r].entryId) =>
            /\ runs[r].langs # <<>>
            /\ runs[r].fetches # <<>>
            /\ runs[r].fetches[1].lang = runs[r].langs[1]

\* C18 witness: VITE_KONTENT_DEFAULT_LANGUAGE is blank, so the default
\* language is empty, no language list is configured, and a detection run
\* has fetched "en"
C18_Witness ==
    /\ appConfig.languages = <<>>
    /\ appConfig.defaultLanguage = ""
    /\ \E r \in DoneFindRuns :
         /\ Truthy(runs[r].entryId)
         /\ runs[r].langs = <<"en">>
         /\ ~HasError(runs[r].result)

\* C20 (as claimed): once isConfigValid() is true it is true in every later
\* state, and every invocation entered from then on finds a valid
\* configuration
C20_ValidConfigurationStaysValid ==
    [][isConfigValid(appConfig) =>
          /\ isConfigValid(appConfig')
          /\ \A r \in 1..Len(runs') :
                r > Len(runs) =>
                    /\ runs'[r].result # DuplicateConfigResult
                    /\ runs'[r].result #
                          createErrorResult(<<MissingConfiguration>>, "none")]_vars

\* C21 (as claimed): every language tag findDuplicateSlugs passes to a
\* per-language fetch is a non-empty string, whatever VITE_KONTENT_LANGUAGES
\* holds and whatever list was applied
C21_FetchedLanguageTagsNonEmpty ==
    \A r \in FindRuns :
        \A k \in 1..Len(runs[r].fetches) : runs[r].fetches[k].lang # ""

-----------------------------------------------------------------------------
(* The items of a search result (SpecSearch)                                *)

\* C22 (as claimed): every item of the merged list of a successful search
\* has the target slug as its slug
C22_MergedItemsHaveTargetSlug ==
    \A r \in DoneSearchRuns :
        runs[r].result.success =>
            \A k \in 1..Len(runs[r].result.items) :
                runs[r].result.items[k].slug = runs[r].targetSlug

-----------------------------------------------------------------------------
(* The flag of user-configured languages (SpecConfig)                       *)

\* C23: the flag never goes back to false and becomes true only in an
\* Apply; and once it is true, a configuration of languages = [] and
\* defaultLanguage = "en" (what Reset leaves) is changed by an Apply only:
\* no Show Config click and no initializeConfig reloads the languages of
\* the environment variables
C23_FlagMonotonicAndResetSticks ==
    [][/\ userHasConfiguredLanguages => userHasConfiguredLanguages'
       /\ (~userHasConfiguredLanguages /\ userHasConfiguredLanguages')
             => applyLanguagesClick
       /\ (/\ userHasConfiguredLanguages
           /\ appConfig.languages = <<>>
           /\ appConfig.defaultLanguage = "en"
           /\ ~applyLanguagesClick)
             => /\ appConfig'.languages = <<>>
                /\ appConfig'.defaultLanguage = "en"]_vars

\* C23 witness: in a deployment whose variables set languages and a default
\* language, the flag is true, the configuration is the one Reset leaves,
\* and the configuration screen has been shown again
C23_Witness ==
    /\ userHasConfiguredLanguages
    /\ env.VITE_KONTENT_LANGUAGES # <<>>
    /\ env.VITE_KONTENT_DEFAULT_LANGUAGE = <<"fr", " ">>
    /\ appConfig.languages = <<>>
    /\ appConfig.defaultLanguage = "en"
    /\ screen.result = "config"

-----------------------------------------------------------------------------
(* Detection and search on the same content (SpecAgree)                     *)

\* the languages of a project: those of LANGUAGE_CODES and one more
ProjectLanguages == Languages \cup {"fr"}

\* repositories in which entities a and b share slug "s": both variants in
\* one language, or a in English and b in another language; b has the slug
\* in url_slug or in the slug element only
AgreeRepositories ==
    {[l \in ProjectLanguages |->
        (IF l = la THEN <<Item("Home", "a", la, "s", Undefined)>> ELSE <<>>)
          \o (IF l = lb THEN <<Item("B", "b", lb, u, "s")>> ELSE <<>>)]
       : la \in {"en", "fr"}, lb \in {"de", "en", "fr"}, u \in {"s", ""}}

\* the language lists of the configuration: none (the default language),
\* languages of LANGUAGE_CODES, another language of the project
AgreeLanguageLists == {<<>>, <<"de", "en">>, <<"fr">>, <<"en", "fr">>}

InitAgree ==
    /\ env = EnvEmpty
    /\ \E ls \in AgreeLanguageLists :
         appConfig = [AppConfigInitial EXCEPT !.environmentId = "ctx-env",
                                              !.languages = ls]
    /\ userHasConfiguredLanguages = TRUE
    /\ booted = TRUE
    /\ screen = [result |-> "other", search |-> FALSE]
    /\ pendingContext = NoPending
    /\ content \in AgreeRepositories
    /\ runs = <<>>
    /\ inputs = [NoInputs EXCEPT !.slug = {<<"s">>}]
    /\ budget = [runs |-> MaxRuns + 1, faults |-> 0]

NextAgree ==
    \/ searchBtnClick
    \/ handleFindDuplicatesClick
    \/ handleSlugSearchClick
    \/ \E r \in 1..Len(runs) : FindFetchReturns(r)
    \/ \E r \in 1..Len(runs) : SearchLookupReturns(r)
    \/ \E r \in 1..Len(runs) : SearchAllItemsFetchReturns(r)

SpecAgree == InitAgree /\ [][NextAgree]_vars

\* the codenames of the items of a search result
CodenamesFound(res) == {res.items[k].codename : k \in 1..Len(res.items)}

\* C24 (as claimed): when a detection run reports slug S with the entities
\* E, a search for S on the same content returns an item for every
\* codename of E
C24_SearchFindsReportedEntities ==
    \A f \in DoneFindRuns : \A g \in DoneSearchRuns :
        (AllFetched(runs[f]) /\ ~HasError(runs[f].result)) =>
            \A k \in 1..Len(runs[f].result.duplicates) :
                LET group == runs[f].result.duplicates[k]
                IN group.slug = runs[g].targetSlug =>
                     {group.items[j].codename : j \in 1..Len(group.items)}
                        \subseteq CodenamesFound(runs[g].result)

====
